---- MODULE Spec2Model ----
(***************************************************************************)
(* State-machine model of the star-registry private blockchain             *)
(* (src/src/blockchain.js, class Blockchain) together with the Block       *)
(* record it seals.  JavaScript values are represented as follows:         *)
(*   - null is the record Null; a SHA256 digest is the record              *)
(*     [tag |-> "sha256", of |-> <serialised input>], i.e. the digest is   *)
(*     collision free and equal inputs give equal digests;                 *)
(*   - a string of decimal digits is represented by the number it denotes; *)
(*   - a colon separated message is the sequence of its fields;            *)
(*   - the value stored under the key `data` of a payload is tagged with   *)
(*     its typeof ("string" or "object");                                  *)
(*   - the argument and the settled value of a call are records whose      *)
(*     field names tell their kind (number, message, stars, errorLog...).  *)
(***************************************************************************)
EXTENDS Integers, Sequences, FiniteSets, TLC

VARIABLES
    chain,      \* this.chain: the array of Blocks
    height,     \* this.height: the cached height
    nowMs,      \* new Date().getTime(): the wall clock, in milliseconds
    lastOp,     \* the last call made on the Blockchain and the state of its promise
    scan,       \* the one scanning operation in flight, suspended at its await
    sealed,     \* history: every Block as it was when _addBlock pushed it
    calls       \* the submitStar calls suspended at `await self._addBlock(...)`

vars == <<chain, height, nowMs, lastOp, scan, sealed, calls>>

(***************************************************************************)
(* Bounds of the model.                                                    *)
(***************************************************************************)
MaxChain == 3        \* Blocks in the chain, genesis included
MaxTicks == 1        \* advances of the wall clock
TickMs   == 600      \* milliseconds per advance of the wall clock
StartMs  == 40000500 \* the wall clock when the Blockchain is constructed
MaxTampered == 1     \* Blocks changed from outside the Blockchain
MaxCalls == 2        \* submitStar calls in flight at once

(***************************************************************************)
(* Program constants.                                                      *)
(***************************************************************************)
FIVE_MINUTES_UTC == 30000

(***************************************************************************)
(* JavaScript values.                                                      *)
(***************************************************************************)
Null == [tag |-> "null"]

JString(s) == [type |-> "string", value |-> s]

StarData(star, owner) == [type |-> "object", star |-> star, owner |-> owner]

\* new Date().getTime().toString().slice(0, -3): the decimal string of the
\* clock without its last three digits, i.e. the whole seconds.
EpochSeconds(ms) == ms \div 1000

\* SHA256(s).toString()
SHA256(s) == [tag |-> "sha256", of |-> s]

\* JSON.stringify(block): the own properties of the Block in creation order.
JSONStringify(block) ==
    <<block.hash, block.height, block.body, block.time, block.previousBlockHash>>

(***************************************************************************)
(* Block (./block.js).                                                     *)
(***************************************************************************)
\* the reversible encoding of the payload held in block.body
Encode(data) == [enc |-> "hex", json |-> data]

\* getBData() succeeds only on a body that is a well formed encoding
DecodeOk(body) == body.enc = "hex"

Decode(body) == body.json

\* new Block(data)
NewBlock(data) ==
    [hash |-> Null, height |-> 0, body |-> Encode(data), time |-> 0,
     previousBlockHash |-> Null]

\* the digest of every field but the hash
RecomputeHash(block) == SHA256(JSONStringify([block EXCEPT !.hash = Null]))

\* block.validate(): false on a decode failure or a digest mismatch
Validate(block) == DecodeOk(block.body) /\ RecomputeHash(block) = block.hash

(***************************************************************************)
(* Blockchain._addBlock(block), as a function of the ledger it runs on.    *)
(***************************************************************************)
\* _addBlock without line 74: the predecessor's hash is not assigned
AddBlock_NoLink(chain_, height_, block, ms) ==
    LET h  == IF height_ = -1 THEN 1 ELSE height_ + 1
        b1 == [block EXCEPT !.height = h]
        b2 == [b1 EXCEPT !.time = EpochSeconds(ms)]
        b3 == [b2 EXCEPT !.hash = SHA256(JSONStringify(b2))]
    IN  [chain |-> Append(chain_, b3), height |-> h, block |-> b3]

\* _addBlock with `this.height + 1` for `++this.height`: the cache goes stale
AddBlock_StaleHeight(chain_, height_, block, ms) ==
    LET h  == IF height_ = -1 THEN 1 ELSE height_ + 1
        b1 == IF height_ = -1
              THEN [block EXCEPT !.height = 1]
              ELSE [block EXCEPT !.height = h,
                                 !.previousBlockHash = chain_[Len(chain_)].hash]
        b2 == [b1 EXCEPT !.time = EpochSeconds(ms)]
        b3 == [b2 EXCEPT !.hash = SHA256(JSONStringify(b2))]
    IN  [chain |-> Append(chain_, b3),
         height |-> IF height_ = -1 THEN 1 ELSE height_, block |-> b3]

\* _addBlock with unshift for push
AddBlock_Unshift(chain_, height_, block, ms) ==
    LET h  == IF height_ = -1 THEN 1 ELSE height_ + 1
        b1 == IF height_ = -1
              THEN [block EXCEPT !.height = 1]
              ELSE [block EXCEPT !.height = h,
                                 !.previousBlockHash = chain_[Len(chain_)].hash]
        b2 == [b1 EXCEPT !.time = EpochSeconds(ms)]
        b3 == [b2 EXCEPT !.hash = SHA256(JSONStringify(b2))]
    IN  [chain |-> <<b3>> \o chain_, height |-> h, block |-> b3]

\* _addBlock with the push before the hash is assigned: the chain holds the
\* Block without its hash
AddBlock_PushUnsealed(chain_, height_, block, ms) ==
    LET h  == IF height_ = -1 THEN 1 ELSE height_ + 1
        b1 == IF height_ = -1
              THEN [block EXCEPT !.height = 1]
              ELSE [block EXCEPT !.height = h,
                                 !.previousBlockHash = chain_[Len(chain_)].hash]
        b2 == [b1 EXCEPT !.time = EpochSeconds(ms)]
        b3 == [b2 EXCEPT !.hash = SHA256(JSONStringify(b2))]
    IN  [chain |-> Append(chain_, b2), height |-> h, block |-> b3]

AddBlock(chain_, height_, block, ms) ==
    LET h  == IF height_ = -1 THEN 1 ELSE height_ + 1
        b1 == IF height_ = -1
              THEN [block EXCEPT !.height = 1]
              ELSE [block EXCEPT !.height = h,
                                 !.previousBlockHash = chain_[Len(chain_)].hash]
        b2 == [b1 EXCEPT !.time = EpochSeconds(ms)]
        b3 == [b2 EXCEPT !.hash = SHA256(JSONStringify(b2))]
    IN  [chain |-> Append(chain_, b3), height |-> h, block |-> b3]

\* initializeChain without `if (this.height === -1)`
InitializeChain_NoGuard(chain_, height_, ms) ==
    AddBlock(chain_, -1, NewBlock([data |-> JString("Genesis Block")]), ms)

\* Blockchain.initializeChain(), up to its await
InitializeChain(chain_, height_, ms) ==
    IF height_ = -1
    THEN AddBlock(chain_, height_, NewBlock([data |-> JString("Genesis Block")]), ms)
    ELSE [chain |-> chain_, height |-> height_, block |-> Null]

\* a constructor that leaves the genesis Block to a later initializeChain()
Constructor_NoInit(ms) == [chain |-> <<>>, height |-> -1, block |-> Null]

\* new Blockchain()
Constructor(ms) == InitializeChain(<<>>, -1, ms)

(***************************************************************************)
(* Inputs.                                                                 *)
(***************************************************************************)
Wallets == {"addrA", "addrB"}

Stars == {"star1", "star2"}

ElapsedCases == {299, 300, 30000}

Digits(n) == [digits |-> n]

Text(s) == [text |-> s]

\* `${address}:${seconds}:starRegistry`
Challenge(address, seconds) == <<Text(address), Digits(seconds), Text("starRegistry")>>

\* the messages a caller submits: a challenge of any age, one whose time
\* field is no number, and one without a second field
Messages(address, ms) ==
    {Challenge(address, EpochSeconds(ms) - e) : e \in ElapsedCases}
        \cup {<<Text(address), Text("soon"), Text("starRegistry")>>, <<Text(address)>>}

\* a signature made with the key of `signer` over `message`
Sign(message, signer) == [kind |-> "signature", signer |-> signer, msg |-> message]

\* a string that is no 65 byte signature: bitcoinMessage.verify throws on it
BadSignature == [kind |-> "malformed"]

Signatures(message) == {Sign(message, w) : w \in Wallets} \cup {BadSignature}

\* message.split(":")[1] parses to a number
HasTimeStamp(message) == Len(message) >= 2 /\ "digits" \in DOMAIN message[2]

\* parseInt(message.split(":")[1]), when it is a number
MessageTimeStamp(message) == message[2].digits

\* bitcoinMessage.verify(message, address, signature): "throws", TRUE or FALSE
Verify(message, address, signature) ==
    IF signature.kind = "malformed"
    THEN "throws"
    ELSE IF signature.signer = address /\ signature.msg = message
         THEN "true" ELSE "false"

(***************************************************************************)
(* The state after `new Blockchain()`.                                     *)
(***************************************************************************)
Idle == [op |-> "idle"]

Init ==
    /\ nowMs = StartMs
    /\ chain = Constructor(StartMs).chain
    /\ height = Constructor(StartMs).height
    /\ sealed = Constructor(StartMs).chain
    /\ lastOp = [op |-> "constructor", arg |-> Null, outcome |-> "returned",
                 value |-> Null]
    /\ scan = Idle
    /\ calls = {}

\* the wall clock advances
Tick ==
    /\ (nowMs - StartMs) \div TickMs < MaxTicks
    /\ nowMs' = nowMs + TickMs
    /\ UNCHANGED <<chain, height, lastOp, scan, sealed, calls>>

\* a further call of initializeChain()
CallInitializeChain ==
    LET r == InitializeChain(chain, height, nowMs)
    IN  /\ chain' = r.chain
        /\ height' = r.height
        /\ sealed' = IF height = -1 THEN Append(sealed, r.block) ELSE sealed
        /\ lastOp' = [op |-> "initializeChain", arg |-> Null,
                      outcome |-> "resolved", value |-> Null]
        /\ UNCHANGED <<nowMs, scan, calls>>

\* getChainHeight()
GetChainHeight ==
    /\ lastOp' = [op |-> "getChainHeight", arg |-> Null, outcome |-> "resolved",
                  value |-> [number |-> height]]
    /\ UNCHANGED <<chain, height, nowMs, scan, sealed, calls>>

\* requestMessageOwnershipVerification(address)
RequestMessageOwnershipVerification(address) ==
    /\ lastOp' = [op |-> "requestMessageOwnershipVerification",
                  arg |-> [address |-> address], outcome |-> "resolved",
                  value |-> [message |-> Challenge(address, EpochSeconds(nowMs))]]
    /\ UNCHANGED <<chain, height, nowMs, scan, sealed, calls>>

\* currentTime - messageTimeStamp < FIVE_MINUTES_UTC; false on NaN
InTime(message, ms) ==
    /\ HasTimeStamp(message)
    /\ EpochSeconds(ms) - MessageTimeStamp(message) < FIVE_MINUTES_UTC

\* what a submitStar call was given: who submits, how old the message is
\* (elapsed is 0 when the message carries no number), what verify makes of
\* the signature, and the star, which the code reads only to build the Block
SubmitArg(address, message, signature, star, ms) ==
    [address |-> address,
     hasTimeStamp |-> HasTimeStamp(message),
     elapsed |-> IF HasTimeStamp(message)
                 THEN EpochSeconds(ms) - MessageTimeStamp(message) ELSE 0,
     verify |-> Verify(message, address, signature),
     star |-> IF InTime(message, ms) /\ Verify(message, address, signature) = "true"
              THEN star ELSE "not read"]

\* submitStar without the second operand of the &&
SubmitOutcome_NoVerify(address, message, signature, ms) ==
    IF InTime(message, ms) THEN "resolved" ELSE "rejected"

\* submitStar that remembers the challenges it accepted: a message is
\* refused once the chain holds a claim of the address sealed since the
\* message was issued
SubmitOutcome_SingleUse(address, message, signature, ms) ==
    IF ~InTime(message, ms)
    THEN "rejected"
    ELSE IF Verify(message, address, signature) = "throws"
    THEN "pending"
    ELSE IF /\ Verify(message, address, signature) = "true"
            /\ ~\E i \in 2..Len(chain) :
                    /\ Decode(chain[i].body).data.owner = address
                    /\ chain[i].time >= MessageTimeStamp(message)
    THEN "resolved"
    ELSE "rejected"

\* the branch submitStar takes: the && calls verify only in time, and an
\* exception of verify leaves the async executor, so neither res nor rej runs
SubmitOutcome(address, message, signature, ms) ==
    IF ~InTime(message, ms)
    THEN "rejected"
    ELSE IF Verify(message, address, signature) = "throws"
    THEN "pending"
    ELSE IF Verify(message, address, signature) = "true"
    THEN "resolved"
    ELSE "rejected"

\* submitStar that builds and adds the Block before it checks the claim
SubmitStar_AddFirst(address, message, signature, star) ==
    LET arg == SubmitArg(address, message, signature, star, nowMs)
        out == SubmitOutcome(address, message, signature, nowMs)
        r   == AddBlock(chain, height,
                        NewBlock([data |-> StarData(star, address)]), nowMs)
    IN  /\ Len(chain) < MaxChain
        /\ chain' = r.chain
        /\ height' = r.height
        /\ sealed' = Append(sealed, r.block)
        /\ lastOp' = [op |-> "submitStar", arg |-> arg, outcome |-> out,
                      value |-> IF out = "resolved" THEN r.block ELSE Null]
        /\ UNCHANGED <<nowMs, scan, calls>>

\* submitStar(address, message, signature, star)
SubmitStar(address, message, signature, star) ==
    LET arg == SubmitArg(address, message, signature, star, nowMs)
        out == SubmitOutcome(address, message, signature, nowMs)
        r   == AddBlock(chain, height,
                        NewBlock([data |-> StarData(star, address)]), nowMs)
    IN  IF out = "resolved"
        THEN /\ Len(chain) < MaxChain
             /\ chain' = r.chain
             /\ height' = r.height
             /\ sealed' = Append(sealed, r.block)
             /\ lastOp' = [op |-> "submitStar", arg |-> arg, outcome |-> out,
                           value |-> r.block]
             /\ UNCHANGED <<nowMs, scan, calls>>
        ELSE /\ lastOp' = [op |-> "submitStar", arg |-> arg, outcome |-> out,
                           value |-> Null]
             /\ UNCHANGED <<chain, height, nowMs, scan, sealed, calls>>

(***************************************************************************)
(* submitStar as the event loop runs it: the executor runs from line 123   *)
(* to the `await` of line 132 without suspension, the executor of          *)
(* _addBlock (lines 68 to 79) included, and the call is then suspended     *)
(* until its continuation runs `res(block)`.  Other calls run in between.  *)
(***************************************************************************)
\* the accepted call with an await between the hash and the push of
\* _addBlock: the call is suspended with its Block sealed and not pushed
SubmitStarCall_AwaitBeforePush(address, message, signature, star) ==
    LET arg == SubmitArg(address, message, signature, star, nowMs)
        out == SubmitOutcome(address, message, signature, nowMs)
        r   == AddBlock(chain, height,
                        NewBlock([data |-> StarData(star, address)]), nowMs)
    IN  /\ out = "resolved"
        /\ Len(chain) < MaxChain
        /\ Cardinality(calls) < MaxCalls
        /\ height' = r.height
        /\ calls' = calls \cup {[arg |-> arg, block |-> r.block]}
        /\ lastOp' = [op |-> "submitStar", arg |-> arg, outcome |-> "suspended",
                      value |-> Null]
        /\ UNCHANGED <<chain, nowMs, scan, sealed>>

\* the call up to its suspension, or up to rej(null)
SubmitStarCall(address, message, signature, star) ==
    LET arg == SubmitArg(address, message, signature, star, nowMs)
        out == SubmitOutcome(address, message, signature, nowMs)
        r   == AddBlock(chain, height,
                        NewBlock([data |-> StarData(star, address)]), nowMs)
    IN  IF out = "resolved"
        THEN /\ Len(chain) < MaxChain
             /\ Cardinality(calls) < MaxCalls
             /\ chain' = r.chain
             /\ height' = r.height
             /\ sealed' = Append(sealed, r.block)
             /\ calls' = calls \cup {[arg |-> arg, block |-> r.block]}
             /\ lastOp' = [op |-> "submitStar", arg |-> arg, outcome |-> "suspended",
                           value |-> Null]
             /\ UNCHANGED <<nowMs, scan>>
        ELSE /\ lastOp' = [op |-> "submitStar", arg |-> arg, outcome |-> out,
                           value |-> Null]
             /\ UNCHANGED <<chain, height, nowMs, scan, sealed, calls>>

\* the continuation of the await: res(block)
SubmitStarResume(call) ==
    /\ call \in calls
    /\ calls' = calls \ {call}
    /\ lastOp' = [op |-> "submitStar", arg |-> call.arg, outcome |-> "resolved",
                  value |-> call.block]
    /\ UNCHANGED <<chain, height, nowMs, scan, sealed>>

\* chain.find(p): the first Block satisfying p, or null
FindByHash(chain_, hash) ==
    IF \E i \in 1..Len(chain_) : chain_[i].hash = hash
    THEN chain_[CHOOSE i \in 1..Len(chain_) :
                    /\ chain_[i].hash = hash
                    /\ \A j \in 1..(i - 1) : chain_[j].hash # hash]
    ELSE Null

\* a lookup by array index: self.chain[height] ?? null
FindByHeight_ByIndex(chain_, h) ==
    IF h + 1 \in 1..Len(chain_) THEN chain_[h + 1] ELSE Null

FindByHeight(chain_, h) ==
    IF \E i \in 1..Len(chain_) : chain_[i].height = h
    THEN chain_[CHOOSE i \in 1..Len(chain_) :
                    /\ chain_[i].height = h
                    /\ \A j \in 1..(i - 1) : chain_[j].height # h]
    ELSE Null

\* a hash that no Block carries
ForgedHash == [tag |-> "sha256", of |-> <<>>]

\* getBlockByHash(hash)
GetBlockByHash(hash) ==
    /\ lastOp' = [op |-> "getBlockByHash", arg |-> [hash |-> hash], outcome |-> "resolved",
                  value |-> FindByHash(chain, hash)]
    /\ UNCHANGED <<chain, height, nowMs, scan, sealed, calls>>

\* getBlockByHeight(height)
GetBlockByHeight(h) ==
    /\ lastOp' = [op |-> "getBlockByHeight", arg |-> [height |-> h], outcome |-> "resolved",
                  value |-> FindByHeight(chain, h)]
    /\ UNCHANGED <<chain, height, nowMs, scan, sealed, calls>>

(***************************************************************************)
(* getStarsByWalletAddress(address): one await per Block.  The loop is     *)
(* suspended at `await block.getBData()` of the Block at index scan.i      *)
(* (counted from 1), whose body was decoded when getBData was called.      *)
(***************************************************************************)
\* the loop reaches Block i: call getBData and suspend, or leave the loop
\* (startLen is history: the length of the chain when the call was made)
StarsAt(address, i, stars, startLen) ==
    IF i <= Len(chain)
    THEN /\ scan' = [op |-> "getStarsByWalletAddress", address |-> address, i |-> i,
                     stars |-> stars, decoded |-> DecodeOk(chain[i].body),
                     bdata |-> IF DecodeOk(chain[i].body)
                               THEN Decode(chain[i].body) ELSE Null,
                     startLen |-> startLen]
         /\ lastOp' = [op |-> "getStarsByWalletAddress",
                       arg |-> [address |-> address, startLen |-> startLen],
                       outcome |-> "pending", value |-> Null]
    ELSE /\ scan' = Idle
         /\ lastOp' = [op |-> "getStarsByWalletAddress",
                       arg |-> [address |-> address, startLen |-> startLen],
                       outcome |-> "resolved", value |-> [stars |-> stars]]

\* the loop body without `owner === address`
StarsCollect_AnyOwner(address, bdata, stars) ==
    IF bdata.data.type = "string" THEN stars ELSE Append(stars, bdata.data.star)

\* the body of the loop after the await
StarsCollect(address, bdata, stars) ==
    IF bdata.data.type = "string"
    THEN stars
    ELSE IF bdata.data.owner = address
         THEN Append(stars, bdata.data.star)
         ELSE stars

GetStarsByWalletAddress(address) ==
    /\ scan = Idle
    /\ StarsAt(address, 1, <<>>, Len(chain))
    /\ UNCHANGED <<chain, height, nowMs, sealed, calls>>

GetStarsResume ==
    /\ scan.op = "getStarsByWalletAddress"
    /\ IF scan.decoded
       THEN StarsAt(scan.address, scan.i + 1,
                    StarsCollect(scan.address, scan.bdata, scan.stars),
                    scan.startLen)
       ELSE \* the rejection of getBData leaves the async executor: res never runs
            /\ scan' = Idle
            /\ lastOp' = [op |-> "getStarsByWalletAddress",
                          arg |-> [address |-> scan.address,
                                   startLen |-> scan.startLen],
                          outcome |-> "pending", value |-> Null]
    /\ UNCHANGED <<chain, height, nowMs, sealed, calls>>

(***************************************************************************)
(* BlockchainController.getStarsByOwner: the handler of GET                *)
(* /blocks/:address awaits getStarsByWalletAddress(address) and answers.   *)
(***************************************************************************)
\* the truth value JavaScript gives a value in `if (v)`: false for null, and
\* true for every object, an empty array included
Truthy(v) == v # Null

\* the status the handler sends for what the promise resolved with
StarsStatus(stars) == IF Truthy(stars) THEN 200 ELSE 404

\* the continuation of the handler's await: the answer to the request
GetStarsByOwnerRespond ==
    /\ lastOp.op = "getStarsByWalletAddress"
    /\ lastOp.outcome = "resolved"
    /\ lastOp' = [op |-> "getStarsByOwner", arg |-> lastOp.arg,
                  outcome |-> "responded",
                  value |-> [status |-> StarsStatus(lastOp.value),
                             json |-> lastOp.value]]
    /\ UNCHANGED <<chain, height, nowMs, scan, sealed, calls>>

(***************************************************************************)
(* validateChain(): one await per Block.  The loop is suspended at         *)
(* `await currentBlock.validate()` of the Block at index scan.i (counted   *)
(* from 1), whose validation ran when validate was called.                 *)
(***************************************************************************)
\* the Blocks that differ from what was sealed
Tampered == {i \in 1..Len(chain) : chain[i] # sealed[i]}

\* whether the promise of validate() may reject instead of resolving with
\* false: only for a body that does not decode
MayThrow(block) == IF DecodeOk(block.body) THEN {FALSE} ELSE {FALSE, TRUE}

\* the loop reaches Block i: call validate and suspend, or leave the loop
ValidateAt(i, errorLog, since) ==
    IF i <= Len(chain)
    THEN /\ \E threw \in MayThrow(chain[i]) :
                scan' = [op |-> "validateChain", i |-> i, errorLog |-> errorLog,
                         valid |-> Validate(chain[i]), threw |-> threw,
                         since |-> since]
         /\ lastOp' = [op |-> "validateChain", arg |-> [since |-> since],
                       outcome |-> "pending", value |-> Null]
    ELSE /\ scan' = Idle
         /\ lastOp' = [op |-> "validateChain", arg |-> [since |-> since],
                       outcome |-> "resolved", value |-> [errorLog |-> errorLog]]

\* the try body with the push inside `if (valid)`: only a broken link is logged
ValidateFails_LinkOnly(chain_, i, valid) ==
    /\ valid
    /\ ~(chain_[i].previousBlockHash = Null /\ chain_[i].height = 1)
    /\ \/ i = 1
       \/ chain_[i].previousBlockHash # chain_[i - 1].hash
       \/ chain_[i].height # chain_[i - 1].height + 1

\* the body of the try after the await, for the Block at index i (from 1):
\* TRUE when an entry is pushed for it
ValidateFails(chain_, i, valid) ==
    IF ~valid
    THEN TRUE
    ELSE IF chain_[i].previousBlockHash = Null /\ chain_[i].height = 1
    THEN FALSE
    ELSE IF i = 1
    THEN TRUE   \* self.chain[-1].hash throws, and the catch pushes
    ELSE \/ chain_[i].previousBlockHash # chain_[i - 1].hash
         \/ chain_[i].height # chain_[i - 1].height + 1

\* the entry pushed by line 225, or by the catch when validate() rejected
ValidateLog(chain_, i, valid, threw, errorLog) ==
    IF threw \/ ValidateFails(chain_, i, valid)
    THEN Append(errorLog, [hash |-> chain_[i].hash, valid |-> FALSE])
    ELSE errorLog

ValidateChain ==
    /\ scan = Idle
    /\ ValidateAt(1, <<>>, Tampered)
    /\ UNCHANGED <<chain, height, nowMs, sealed, calls>>

\* a scan that resolves with its list at the first Block it logs
ValidateResume_StopAtFirst ==
    /\ scan.op = "validateChain"
    /\ LET errorLog == ValidateLog(chain, scan.i, scan.valid, scan.threw,
                                   scan.errorLog)
       IN  IF errorLog # scan.errorLog
           THEN /\ scan' = Idle
                /\ lastOp' = [op |-> "validateChain", arg |-> [since |-> scan.since],
                              outcome |-> "resolved",
                              value |-> [errorLog |-> errorLog]]
           ELSE ValidateAt(scan.i + 1, errorLog, scan.since)
    /\ UNCHANGED <<chain, height, nowMs, sealed, calls>>

ValidateResume ==
    /\ scan.op = "validateChain"
    /\ ValidateAt(scan.i + 1,
                  ValidateLog(chain, scan.i, scan.valid, scan.threw, scan.errorLog),
                  scan.since)
    /\ UNCHANGED <<chain, height, nowMs, sealed, calls>>

\* the calls that run to completion without a suspension
Next ==
    \/ Tick
    \/ CallInitializeChain
    \/ GetChainHeight
    \/ \E address \in Wallets : RequestMessageOwnershipVerification(address)
    \/ \E address \in Wallets, star \in Stars :
           \E message \in Messages(address, nowMs) :
               \E signature \in Signatures(message) :
                   SubmitStar(address, message, signature, star)
    \/ \E i \in 1..Len(chain) : GetBlockByHash(chain[i].hash)
    \/ GetBlockByHash(ForgedHash)
    \/ \E h \in 0..(MaxChain + 1) : GetBlockByHeight(h)

Spec == Init /\ [][Next]_vars

\* a challenge requested 299 seconds ago
FreshChallenge(address) == Challenge(address, EpochSeconds(nowMs) - 299)

\* the two scans, suspended at their awaits, interleaved with the one call
\* that writes the chain: a submitStar that is accepted
NextScan ==
    \/ Tick
    \/ \E address \in Wallets, star \in Stars :
           SubmitStar(address, FreshChallenge(address),
                      Sign(FreshChallenge(address), address), star)
    \/ \E address \in Wallets : GetStarsByWalletAddress(address)
    \/ GetStarsResume
    \/ GetStarsByOwnerRespond
    \/ ValidateChain
    \/ ValidateResume

SpecScan == Init /\ [][NextScan]_vars

\* submitStar calls started while others are suspended, with signatures of
\* the address and of another wallet
NextConcurrent ==
    \/ Tick
    \/ \E address \in Wallets, signer \in Wallets, star \in Stars :
           SubmitStarCall(address, FreshChallenge(address),
                          Sign(FreshChallenge(address), signer), star)
    \/ \E call \in calls : SubmitStarResume(call)

SpecConcurrent == Init /\ [][NextConcurrent]_vars

\* the challenge requestMessageOwnershipVerification(address) resolved with
\* when the Blockchain was constructed
IssuedChallenge(address) == Challenge(address, EpochSeconds(StartMs))

\* each wallet signs the one challenge it was issued and submits the same
\* message and signature again and again, while the clock advances and
\* further challenges are requested
NextReplay ==
    \/ Tick
    \/ \E address \in Wallets : RequestMessageOwnershipVerification(address)
    \/ \E address \in Wallets, star \in Stars :
           SubmitStar(address, IssuedChallenge(address),
                      Sign(IssuedChallenge(address), address), star)

SpecReplay == Init /\ [][NextReplay]_vars

(***************************************************************************)
(* The chain under mutation from outside the Blockchain: code that holds a *)
(* Block assigns one of its fields.  The Blockchain itself never does.     *)
(***************************************************************************)
CorruptBody == [enc |-> "corrupt"]

OtherBodies == {CorruptBody, Encode([data |-> StarData("star0", "addrC")])}

TamperValues(i, field) ==
    CASE field = "height" -> {0, chain[i].height + 1}
      [] field = "time" -> {chain[i].time + 1}
      [] field = "previousBlockHash" -> {Null, ForgedHash} \ {chain[i].previousBlockHash}
      [] field = "body" -> OtherBodies
      [] field = "hash" -> {ForgedHash}

Tamper(i, field, value) ==
    /\ chain[i] = sealed[i]
    /\ Cardinality(Tampered) < MaxTampered
    /\ chain' = [chain EXCEPT ![i][field] = value]
    /\ lastOp' = [op |-> "tamper", arg |-> [index |-> i], outcome |-> "returned", value |-> Null]
    /\ UNCHANGED <<height, nowMs, scan, sealed, calls>>

BlockFields == {"hash", "height", "body", "time", "previousBlockHash"}

\* the link fields a Block is given before its hash is computed anew
ResealValues(i) ==
    ({chain[i].previousBlockHash, Null, ForgedHash} \X {chain[i].height, 1, chain[i].height + 1})
        \ {<<chain[i].previousBlockHash, chain[i].height>>}

\* external code rewrites the link fields of a Block and seals it again, so
\* that the Block validates by itself
Reseal(i, previousBlockHash, h) ==
    LET b == [chain[i] EXCEPT !.previousBlockHash = previousBlockHash, !.height = h]
    IN  /\ chain[i] = sealed[i]
        /\ Cardinality(Tampered) < MaxTampered
        /\ chain' = [chain EXCEPT ![i] = [b EXCEPT !.hash = RecomputeHash(b)]]
        /\ lastOp' = [op |-> "reseal", arg |-> [index |-> i], outcome |-> "returned",
                      value |-> Null]
        /\ UNCHANGED <<height, nowMs, scan, sealed, calls>>

NextTamper ==
    \/ \E address \in Wallets :
           SubmitStar(address, FreshChallenge(address),
                      Sign(FreshChallenge(address), address), "star1")
    \/ \E i \in 1..Len(chain), field \in BlockFields :
           \E value \in TamperValues(i, field) : Tamper(i, field, value)
    \/ ValidateChain
    \/ ValidateResume

SpecTamper == Init /\ [][NextTamper]_vars

\* validateChain over a chain of one owner's claims in which external code
\* assigns a field of a Block, or rewrites its link fields and seals it again
NextReseal ==
    \/ SubmitStar("addrA", FreshChallenge("addrA"),
                  Sign(FreshChallenge("addrA"), "addrA"), "star1")
    \/ \E i \in 1..Len(chain), field \in BlockFields :
           \E value \in TamperValues(i, field) : Tamper(i, field, value)
    \/ \E i \in 1..Len(chain) :
           \E link \in ResealValues(i) : Reseal(i, link[1], link[2])
    \/ ValidateChain
    \/ ValidateResume

SpecReseal == Init /\ [][NextReseal]_vars

\* the continuation of an await runs once the awaited promise has settled:
\* the job queue of the event loop is always drained
SpecResealFair == SpecReseal /\ WF_vars(ValidateResume)

(***************************************************************************)
(* Properties.                                                             *)
(***************************************************************************)
IsPrefix(s, t) == Len(s) <= Len(t) /\ \A i \in 1..Len(s) : s[i] = t[i]

\* this step is a call of submitStar
SubmitStep ==
    /\ lastOp'.op = "submitStar"
    /\ lastOp.op # "submitStar" \/ lastOp' # lastOp

\* the payload of a Block, decoded
Payload(block) == Decode(block.body).data

IsClaim(block) == DecodeOk(block.body) /\ Payload(block).type = "object"

\* C1: in every state reached through the operations of the Blockchain, every
\* Block after the first carries the hash of its predecessor as
\* previousBlockHash and the predecessor's height plus one as height.
C1_LinkInvariant ==
    \A i \in 2..Len(chain) :
        /\ chain[i].previousBlockHash = chain[i - 1].hash
        /\ chain[i].height = chain[i - 1].height + 1

C1_Witness == Len(chain) >= 3 /\ lastOp.op = "submitStar" /\ lastOp.outcome = "resolved"

\* C2: a submitStar call whose message is 300 seconds old or older is
\* rejected and appends nothing, whether verify returns true or false for
\* the signature.  (Violated: the window of the code is FIVE_MINUTES_UTC =
\* 30000 seconds, so a validly signed message of 300 seconds resolves with
\* a new Block.  Signatures on which verify throws are left out here: a
\* call they leave pending is not the window's doing.)
C2_ExpiredIsRejected ==
    (/\ lastOp.op = "submitStar"
     /\ lastOp.arg.hasTimeStamp
     /\ lastOp.arg.elapsed >= 300
     /\ lastOp.arg.verify # "throws")
        => lastOp.outcome = "rejected"

C4_FailedSubmitChangesNothing ==
    [][(SubmitStep /\ lastOp'.outcome # "resolved")
           => (chain' = chain /\ height' = height)]_vars

C4_Witness ==
    /\ lastOp.op = "submitStar"
    /\ lastOp.outcome = "rejected"
    /\ Len(chain) >= 2

\* C5: a submitStar call that resolves appends exactly one Block and resolves
\* with it: its height is the former tail's plus one, its previousBlockHash
\* the former tail's hash, and its payload decodes to the star and the owner
\* submitted.
C5_AcceptedSubmitAppends ==
    [][(SubmitStep /\ lastOp'.outcome = "resolved")
           => /\ chain' = Append(chain, lastOp'.value)
              /\ lastOp'.value.height = chain[Len(chain)].height + 1
              /\ lastOp'.value.previousBlockHash = chain[Len(chain)].hash
              /\ DecodeOk(lastOp'.value.body)
              /\ Payload(lastOp'.value)
                     = StarData(lastOp'.arg.star, lastOp'.arg.address)]_vars

C5_Witness ==
    /\ lastOp.op = "submitStar"
    /\ lastOp.outcome = "resolved"
    /\ lastOp.arg.elapsed < 300
    /\ Len(chain) = 2
    /\ chain[2] = lastOp.value
    /\ chain[2].height = 2
    /\ chain[2].previousBlockHash = chain[1].hash

\* C6: when the constructor returns, before any call, the chain holds the
\* genesis Block alone, with height 1 and previousBlockHash null, and the
\* cached height is 1; getChainHeight resolves with the cached height.
C6_GenesisAtConstruction ==
    /\ lastOp.op = "constructor"
           => /\ Len(chain) = 1
              /\ chain[1].height = 1
              /\ chain[1].previousBlockHash = Null
              /\ DecodeOk(chain[1].body)
              /\ Payload(chain[1]) = JString("Genesis Block")
              /\ height = 1
    /\ lastOp.op = "getChainHeight" => lastOp.value.number = height

C6_Witness == lastOp.op = "constructor" /\ nowMs = StartMs /\ Len(chain) = 1

\* C7: every step keeps the chain as a prefix of the chain after it, Block
\* for Block, and only a resolving submitStar (or the initializeChain of an
\* empty chain) lengthens it, by one Block.
C7_AppendOnly ==
    [][/\ IsPrefix(chain, chain')
       /\ Len(chain') > Len(chain)
              => /\ Len(chain') = Len(chain) + 1
                 /\ \/ lastOp'.op = "submitStar" /\ lastOp'.outcome = "resolved"
                    \/ lastOp'.op = "initializeChain" /\ Len(chain) = 0]_vars

C7_Witness == Len(chain) = 3 /\ lastOp.op = "getBlockByHeight"

\* C8: the cached height is the height of the last Block and the length of
\* the chain; it is -1 only while the chain is empty.
C8_CachedHeight ==
    /\ Len(chain) > 0 => (height = chain[Len(chain)].height /\ height = Len(chain))
    /\ height = -1 => Len(chain) = 0

C8_Witness == Len(chain) = 3 /\ height = 3 /\ lastOp.op = "getChainHeight"

\* the stars of the claim Blocks of owner a, in chain order
StarsOf(chain_, a) ==
    LET owned == SelectSeq(chain_, LAMBDA b : IsClaim(b) /\ Payload(b).owner = a)
    IN  [k \in 1..Len(owned) |-> Payload(owned[k]).star]

\* C9: getStarsByWalletAddress(a) resolves with the star of every claim Block
\* whose owner is a, one entry per Block, in chain order, and nothing for the
\* genesis Block.
C9_StarsByOwner ==
    (lastOp.op = "getStarsByWalletAddress" /\ lastOp.outcome = "resolved")
        => lastOp.value.stars = StarsOf(chain, lastOp.arg.address)

C9_Witness ==
    /\ lastOp.op = "getStarsByWalletAddress"
    /\ lastOp.outcome = "resolved"
    /\ lastOp.value.stars = <<"star2", "star1">>

\* exactly one field of the Block differs from the Block as sealed
OneFieldChanged(block, asSealed) ==
    Cardinality({f \in BlockFields : block[f] # asSealed[f]}) = 1

\* C10: when validateChain resolves, its list holds an entry
\* {hash: the stored hash, valid: false} for every Block of which one field
\* had been changed after sealing when validateChain was called.
C10_TamperIsReported ==
    (lastOp.op = "validateChain" /\ lastOp.outcome = "resolved")
        => \A i \in lastOp.arg.since :
               OneFieldChanged(chain[i], sealed[i])
                   => \E k \in 1..Len(lastOp.value.errorLog) :
                          lastOp.value.errorLog[k]
                              = [hash |-> chain[i].hash, valid |-> FALSE]

C10_Witness ==
    /\ lastOp.op = "validateChain"
    /\ lastOp.outcome = "resolved"
    /\ Len(chain) = 3
    /\ lastOp.arg.since = {2}
    /\ Len(lastOp.value.errorLog) >= 1

\* C11: when no Block has been changed after sealing, validateChain resolves
\* with the empty list, also when accepted submitStar calls lengthen the
\* chain while it scans.
C11_UntamperedChainIsValid ==
    (lastOp.op = "validateChain" /\ lastOp.outcome = "resolved" /\ chain = sealed)
        => lastOp.value.errorLog = <<>>

C11_Witness ==
    /\ lastOp.op = "validateChain"
    /\ lastOp.outcome = "resolved"
    /\ chain = sealed
    /\ Len(chain) = 3
    /\ lastOp.value.errorLog = <<>>

\* the mark of the genesis Block
IsGenesis(block) == block.previousBlockHash = Null /\ block.height = 1

\* C12: in every state exactly one Block of the chain has previousBlockHash
\* null and height 1, and it is the first; a call of initializeChain on a
\* chain that has Blocks leaves the chain and the cached height as they were.
C12_InitializeIdempotent ==
    /\ [](Len(chain) >= 1 /\ {i \in 1..Len(chain) : IsGenesis(chain[i])} = {1})
    /\ [][lastOp'.op = "initializeChain" => (chain' = chain /\ height' = height)]_vars

C12_Witness ==
    /\ lastOp.op = "initializeChain"
    /\ lastOp.outcome = "resolved"
    /\ Len(chain) = 3
    /\ height = 3

\* C13: getBlockByHeight(h) resolves with the one Block whose height is h,
\* the h-th of the chain, when 1 <= h <= the cached height, and with null for
\* every other h, 0 included; getBlockByHash resolves with a Block carrying
\* the hash when there is one and with null when there is none.
C13_LookupByHeight ==
    /\ lastOp.op = "getBlockByHeight"
           => /\ lastOp.outcome = "resolved"
              /\ IF 1 <= lastOp.arg.height /\ lastOp.arg.height <= height
                 THEN /\ lastOp.value = chain[lastOp.arg.height]
                      /\ \A i \in 1..Len(chain) :
                             chain[i].height = lastOp.arg.height
                                 => i = lastOp.arg.height
                 ELSE lastOp.value = Null
    /\ lastOp.op = "getBlockByHash"
           => /\ lastOp.outcome = "resolved"
              /\ IF \E i \in 1..Len(chain) : chain[i].hash = lastOp.arg.hash
                 THEN /\ lastOp.value.hash = lastOp.arg.hash
                      /\ \E i \in 1..Len(chain) : chain[i] = lastOp.value
                 ELSE lastOp.value = Null

C13_Witness ==
    /\ lastOp.op = "getBlockByHeight"
    /\ lastOp.arg.height = 3
    /\ Len(chain) = 3
    /\ lastOp.value = chain[3]

\* C14: the handler of GET /blocks/:address answers 404 when the owner has
\* no star on the chain and 200 with the list when it has at least one.
\* (Violated: `if (stars)` is true for the empty array, so the answer to an
\* owner without stars is 200 with an empty list.)
C14_NoStarsIs404 ==
    lastOp.op = "getStarsByOwner"
        => lastOp.value.status
               = (IF lastOp.value.json.stars = <<>> THEN 404 ELSE 200)

\* the Block at index i (from 1) does not link to the Block before it
LinkBroken(chain_, i) ==
    \/ i = 1
    \/ chain_[i].previousBlockHash # chain_[i - 1].hash
    \/ chain_[i].height # chain_[i - 1].height + 1

\* the list holds an entry for the Block
Logged(errorLog, block) ==
    \E k \in 1..Len(errorLog) : errorLog[k] = [hash |-> block.hash, valid |-> FALSE]

\* C15: when validateChain resolves, its list holds an entry for every Block
\* after the first that validates by itself but whose previousBlockHash is
\* not the hash of the Block before it or whose height is not that Block's
\* height plus one, a Block with previousBlockHash null and height 1
\* included.  The Blocks meant are those changed before the call, with no
\* change made while it ran.  (Violated: validateChain exempts a Block by
\* its fields, not by its index.)
C15_LinkCheckedAfterFirst ==
    (lastOp.op = "validateChain" /\ lastOp.outcome = "resolved"
         /\ Tampered = lastOp.arg.since)
        => \A i \in 2..Len(chain) :
               (Validate(chain[i]) /\ LinkBroken(chain, i))
                   => Logged(lastOp.value.errorLog, chain[i])

\* the Block at index i fails: it does not validate by itself, or it is not
\* marked as genesis and does not link to the Block before it
RecordFails(chain_, i) ==
    \/ ~Validate(chain_[i])
    \/ ~IsGenesis(chain_[i]) /\ LinkBroken(chain_, i)

\* the entries of the failing Blocks, in chain order
ExpectedLog(chain_) ==
    LET failing == SelectSeq([i \in 1..Len(chain_) |-> i],
                             LAMBDA i : RecordFails(chain_, i))
    IN  [k \in 1..Len(failing) |-> [hash |-> chain_[failing[k]].hash, valid |-> FALSE]]

\* validateChain is pending only while suspended at a Block of the chain,
\* and what it resolves with, when no Block was changed while it ran, is
\* the list of the failing Blocks
ValidateChainReport ==
    lastOp.op = "validateChain"
        => /\ lastOp.outcome \in {"pending", "resolved"}
           /\ lastOp.outcome = "pending"
                  => (scan.op = "validateChain" /\ scan.i <= Len(chain))
           /\ (lastOp.outcome = "resolved" /\ Tampered = lastOp.arg.since)
                  => lastOp.value.errorLog = ExpectedLog(chain)

\* C16: every validateChain call resolves, with a list, and never rejects or
\* stops before the end of the chain: when no Block was changed while it
\* ran, the list has exactly one entry for each failing Block and none for
\* a passing one, in chain order, whether validate() returned false or
\* rejected and whichever Block was changed, the first included.
C16_ValidateChainCompletes ==
    /\ []ValidateChainReport
    /\ (scan.op = "validateChain")
           ~> (lastOp.op = "validateChain" /\ lastOp.outcome = "resolved")

C16_Witness ==
    /\ lastOp.op = "validateChain"
    /\ lastOp.outcome = "resolved"
    /\ lastOp.arg.since = {1}
    /\ Tampered = {1}
    /\ Validate(chain[1])
    /\ ~IsGenesis(chain[1])
    /\ Len(chain) = 3
    /\ Len(lastOp.value.errorLog) = 2
    /\ lastOp.value.errorLog[1].hash = chain[1].hash
    /\ lastOp.value.errorLog[2].hash = chain[2].hash

\* C17: whatever the order in which concurrently started submitStar calls
\* run and resume, a call is suspended only after its Block is pushed: every
\* suspended call's Block is in the chain, no two Blocks carry the same
\* previousBlockHash or the same height, and every Block after the first
\* links to the Block before it.
C17_NoRaceBetweenSubmits ==
    /\ \A call \in calls : \E i \in 2..Len(chain) : chain[i] = call.block
    /\ \A i, j \in 1..Len(chain) :
           i # j => /\ chain[i].previousBlockHash # chain[j].previousBlockHash
                    /\ chain[i].height # chain[j].height
    /\ \A i \in 2..Len(chain) : ~LinkBroken(chain, i)
    /\ height = Len(chain)
    /\ (lastOp.op = "submitStar" /\ lastOp.outcome = "resolved")
           => \E i \in 2..Len(chain) : chain[i] = lastOp.value

C17_Witness ==
    /\ Cardinality(calls) = 2
    /\ Len(chain) = 3
    /\ \A call \in calls : call.arg.address = "addrA"

\* the first n Blocks of the chain
Prefix(chain_, n) == SubSeq(chain_, 1, n)

\* C18: with accepted submitStar calls run between the awaits of a scan,
\* every Block of the chain has its height, time, hash and (after the
\* first) previousBlockHash assigned; a suspended scan holds the result of
\* the Blocks before the one it is suspended at; and a scan resolves with
\* the result of the whole chain as it is at that instant, the Blocks
\* appended since the call included.
C18_ScanSeesSealedBlocks ==
    /\ \A i \in 1..Len(chain) :
           /\ chain[i].hash # Null
           /\ chain[i].time # 0
           /\ chain[i].height = i
           /\ i > 1 => chain[i].previousBlockHash # Null
    /\ scan.op = "getStarsByWalletAddress"
           => /\ scan.i <= Len(chain)
              /\ scan.decoded
              /\ scan.bdata = Decode(chain[scan.i].body)
              /\ scan.stars = StarsOf(Prefix(chain, scan.i - 1), scan.address)
    /\ scan.op = "validateChain"
           => /\ scan.i <= Len(chain)
              /\ scan.valid
              /\ scan.errorLog = ExpectedLog(Prefix(chain, scan.i - 1))
    /\ (lastOp.op = "getStarsByWalletAddress" /\ lastOp.outcome = "resolved")
           => /\ lastOp.arg.startLen <= Len(chain)
              /\ lastOp.value.stars = StarsOf(chain, lastOp.arg.address)
    /\ (lastOp.op = "validateChain" /\ lastOp.outcome = "resolved")
           => lastOp.value.errorLog = ExpectedLog(chain)

C18_Witness ==
    /\ lastOp.op = "getStarsByWalletAddress"
    /\ lastOp.outcome = "resolved"
    /\ lastOp.arg.address = "addrA"
    /\ lastOp.arg.startLen = 1
    /\ Len(chain) = 3
    /\ lastOp.value.stars = <<"star1", "star2">>

\* C19: every submitStar call settles: its promise is resolved or rejected,
\* whatever the signature, for a message less than 300 seconds old and for
\* one without a timestamp.  (Violated: an exception of
\* bitcoinMessage.verify leaves the async executor, after which no code is
\* left that calls res or rej, and the promise stays pending.)
C19_SubmitSettles ==
    (lastOp.op = "submitStar" /\ lastOp.arg.elapsed < 300)
        => lastOp.outcome \in {"resolved", "rejected"}

\* the chain holds a claim of the address
HasClaimOf(chain_, address) ==
    \E i \in 1..Len(chain_) : IsClaim(chain_[i]) /\ Payload(chain_[i]).owner = address

\* C20: when an address submits again the message and signature with which
\* a claim of it was accepted, and the message is still less than
\* FIVE_MINUTES_UTC old, the call resolves again and appends one more Block
\* with the same owner.
C20_ChallengeIsReusable ==
    [][(/\ SubmitStep
        /\ HasClaimOf(chain, lastOp'.arg.address)
        /\ lastOp'.arg.verify = "true"
        /\ lastOp'.arg.hasTimeStamp
        /\ lastOp'.arg.elapsed < FIVE_MINUTES_UTC)
           => /\ lastOp'.outcome = "resolved"
              /\ chain' = Append(chain, lastOp'.value)
              /\ IsClaim(lastOp'.value)
              /\ Payload(lastOp'.value).owner = lastOp'.arg.address]_vars

C20_Witness ==
    /\ lastOp.op = "submitStar"
    /\ lastOp.outcome = "resolved"
    /\ lastOp.arg.elapsed >= 1
    /\ Len(chain) = 3
    /\ chain[3] = lastOp.value
    /\ Payload(chain[2]).owner = "addrA"
    /\ Payload(chain[3]).owner = "addrA"
    /\ chain[2].time = EpochSeconds(StartMs)

====
